---- MODULE Spec2Model ----
(***************************************************************************)
(* Model of the OnsenRAG retrieval pipeline (src/RAG/src/onsen_rag.py):    *)
(* the query cache (OrderedDict with TTL and LRU eviction), the            *)
(* conversational location context (_last_location), location detection   *)
(* and the three-stage hybrid search.                                      *)
(*                                                                         *)
(* Conventions                                                             *)
(*  - Python None of an optional value is the empty sequence <<>>, a       *)
(*    present value x is <<x>>; an optional location tag is the string     *)
(*    "None" or the tag.                                                   *)
(*  - A question is the sequence of its words; "kw in question" is         *)
(*    membership of the keyword in that sequence.                          *)
(*  - A Document is a record [chunk_id, page_content, location].           *)
(*  - The external capabilities (vector search, BM25, CrossEncoder, LLM)   *)
(*    are an input record env chosen per call.                             *)
(***************************************************************************)
EXTENDS Integers, Sequences, FiniteSets, TLC

VARIABLES
    vectorstore,        \* self.vectorstore: <<>> (None) or <<documents>>
    documents,          \* self.documents
    bm25_built,         \* hasattr(self, "_bm25_by_location")
    _bm25_all,          \* documents of the all-documents BM25 retriever (<<>> = None)
    _bm25_by_location,  \* location -> documents of that location's retriever (<<>> = no entry)
    _query_cache,       \* OrderedDict, oldest first: sequence of [key, result, timestamp]
    _last_location,     \* "None" or the last detected location
    now,                \* time.time()
    lastQ,              \* history: the last query-time call and its outcome
    recency,            \* history: the live puts, least recently inserted-or-hit first
    sessionTags,        \* history: per session, the locations detected from its own queries
    loaded,             \* history: a load has run to its end
    probe,              \* history: the last pipeline stage applied, its inputs and its output
    inflight            \* per concurrent caller: the position of its query and its locals

vars == <<vectorstore, documents, bm25_built, _bm25_all, _bm25_by_location,
          _query_cache, _last_location, now, lastQ, recency, sessionTags,
          loaded, probe, inflight>>

(***************************************************************************)
(* Bounds and scaled program constants                                     *)
(***************************************************************************)
\* self._cache_maxsize (128 in the source), scaled down
cache_maxsize == 2
\* self._cache_ttl (300 seconds in the source), scaled down to clock ticks
cache_ttl == 2
\* last value of the clock
MaxTime == 4
\* self.initial_k (10 in the source), scaled down
initial_k == 2
\* self.final_k (3 in the source), scaled down
final_k == 1
\* RRF_K
RRF_K == 60
\* self.semantic_weight and self.keyword_weight, in tenths (0.5 / 0.5)
semantic_weight == 5
keyword_weight == 10 - semantic_weight
\* CONFIDENCE_THRESHOLD
CONFIDENCE_THRESHOLD == -3

None == <<>>
Some(x) == <<x>>

(***************************************************************************)
(* Sequence helpers (Python list semantics)                                *)
(***************************************************************************)
Range(s) == {s[i] : i \in 1..Len(s)}

\* s[:n]
Take(s, n) == SubSeq(s, 1, IF n < Len(s) THEN n ELSE Len(s))

\* s without its i-th element
RemoveAt(s, i) == SubSeq(s, 1, i-1) \o SubSeq(s, i+1, Len(s))

\* sorted(s, key=lambda x: x.key, reverse=True) on a sequence of records
\* with a numeric field key: stable, descending
RECURSIVE InsertDesc(_, _)
InsertDesc(sorted, x) ==
    IF sorted = <<>> THEN <<x>>
    ELSE IF Head(sorted).key >= x.key
         THEN <<Head(sorted)>> \o InsertDesc(Tail(sorted), x)
         ELSE <<x>> \o sorted

RECURSIVE SortDesc(_)
SortDesc(s) ==
    IF s = <<>> THEN <<>>
    ELSE InsertDesc(SortDesc(SubSeq(s, 1, Len(s)-1)), s[Len(s)])

(***************************************************************************)
(* Locations, questions, documents                                         *)
(***************************************************************************)
\* LOCATION_KEYWORDS, in dict order (two of the four locations)
LOCATION_KEYWORDS ==
    << [location |-> "kusatsu", keywords |-> <<"Kusatsu">>],
       [location |-> "hakone",  keywords |-> <<"Hakone">>] >>

Locations == {LOCATION_KEYWORDS[i].location : i \in 1..Len(LOCATION_KEYWORDS)}

\* the location value of general-knowledge chunks
GeneralTag == "onsen"

\* questions as word sequences
QKusatsu == <<"Kusatsu", "access">>
QHakone  == <<"Hakone", "access">>
QPlain   == <<"cafe">>
QBoth    == <<"Kusatsu", "Hakone">>

Questions == {QKusatsu, QHakone, QPlain, QBoth}

DocK1 == [chunk_id |-> "kusatsu_001", page_content |-> "k1", location |-> "kusatsu"]
DocH1 == [chunk_id |-> "hakone_001",  page_content |-> "h1", location |-> "hakone"]
DocO1 == [chunk_id |-> "onsen_001",   page_content |-> "o1", location |-> "onsen"]
DocO2 == [chunk_id |-> "onsen_002",   page_content |-> "o2", location |-> "onsen"]

\* the chunks of the JSON corpus
JsonCorpus == <<DocK1, DocH1, DocO1, DocO2>>

AllDocs == Range(JsonCorpus)

(***************************************************************************)
(* Location detection                                                      *)
(***************************************************************************)
\* kw in question
Contains(question, kw) == \E i \in 1..Len(question) : question[i] = kw

\* variant of _detect_location: the first match is returned when several
\* locations match
_detect_location_first(question) ==
    LET Hit(entry) == \E j \in 1..Len(entry.keywords) :
                          Contains(question, entry.keywords[j])
        detected == SelectSeq(LOCATION_KEYWORDS, Hit)
    IN  IF Len(detected) >= 1 THEN detected[1].location ELSE "None"

\* OnsenRAG._detect_location
_detect_location(question) ==
    LET Hit(entry) == \E j \in 1..Len(entry.keywords) :
                          Contains(question, entry.keywords[j])
        detected == SelectSeq(LOCATION_KEYWORDS, Hit)
    IN  IF Len(detected) = 1 THEN detected[1].location ELSE "None"

(***************************************************************************)
(* Query cache                                                             *)
(***************************************************************************)
\* str(k)
Str(k) == CASE k = 1 -> "1" [] k = 2 -> "2" [] k = 3 -> "3" [] OTHER -> "n"

\* OnsenRAG._cache_key: the string f"{question}::{k}" as a word sequence; the
\* md5 digest of it is taken to be injective
_cache_key(question, k) == question \o <<"::", Str(k)>>

\* position of key in the OrderedDict, 0 when absent
KeyIndex(cache, key) ==
    IF \E i \in 1..Len(cache) : cache[i].key = key
    THEN CHOOSE i \in 1..Len(cache) : cache[i].key = key
    ELSE 0

CacheKeys(cache) == {cache[i].key : i \in 1..Len(cache)}

\* variant of _get_from_cache: a hit does not move the entry to the end
_get_from_cache_no_move(cache, key, t) ==
    LET i == KeyIndex(cache, key)
    IN  IF i = 0
        THEN [cache |-> cache, ret |-> None]
        ELSE IF t - cache[i].timestamp > cache_ttl
             THEN [cache |-> RemoveAt(cache, i), ret |-> None]
             ELSE [cache |-> cache, ret |-> Some(cache[i].result)]

\* variant of _get_from_cache: the age test is the wrong way round
_get_from_cache_reversed(cache, key, t) ==
    LET i == KeyIndex(cache, key)
    IN  IF i = 0
        THEN [cache |-> cache, ret |-> None]
        ELSE IF t - cache[i].timestamp < cache_ttl
             THEN [cache |-> RemoveAt(cache, i), ret |-> None]
             ELSE [cache |-> Append(RemoveAt(cache, i), cache[i]),
                   ret   |-> Some(cache[i].result)]

\* OnsenRAG._get_from_cache: the cache afterwards and the returned value
_get_from_cache(cache, key, t) ==
    LET i == KeyIndex(cache, key)
    IN  IF i = 0
        THEN [cache |-> cache, ret |-> None]
        ELSE IF t - cache[i].timestamp > cache_ttl
             THEN [cache |-> RemoveAt(cache, i), ret |-> None]
             ELSE [cache |-> Append(RemoveAt(cache, i), cache[i]),
                   ret   |-> Some(cache[i].result)]

\* variant of _put_to_cache: the size test is "greater than"
_put_to_cache_late_evict(cache, key, result, t) ==
    LET popped == IF Len(cache) > cache_maxsize THEN Tail(cache) ELSE cache
        entry  == [key |-> key, result |-> result, timestamp |-> t]
        i      == KeyIndex(popped, key)
    IN  IF i = 0
        THEN Append(popped, entry)
        ELSE [popped EXCEPT ![i] = entry]

\* OnsenRAG._put_to_cache
_put_to_cache(cache, key, result, t) ==
    LET popped == IF Len(cache) >= cache_maxsize THEN Tail(cache) ELSE cache
        entry  == [key |-> key, result |-> result, timestamp |-> t]
        i      == KeyIndex(popped, key)
    IN  IF i = 0
        THEN Append(popped, entry)
        ELSE [popped EXCEPT ![i] = entry]

(***************************************************************************)
(* Retrieval capabilities.  env.sem and env.bm are the rankings the        *)
(* embedding search and BM25 give to the documents for the question at     *)
(* hand (best first); env.ce is the CrossEncoder score of each content;    *)
(* env.llm is the judgment call; env.answer the generated answer;          *)
(* env.fail names the capability call that raises, if any.                 *)
(***************************************************************************)
\* the Chroma filter {"$or": [location == loc, location == "onsen"]}
PassesFilter(doc, location) ==
    location = "None" \/ doc.location = location \/ doc.location = GeneralTag

\* variant of SemanticSearch: the location filter is not passed on
SemanticSearch_unfiltered(env, store, location, k) ==
    LET Test(d) == d \in Range(store)
    IN  Take(SelectSeq(env.sem, Test), k)

\* vector_retriever.invoke(question) with search_kwargs k and filter
SemanticSearch(env, store, location, k) ==
    LET Test(d) == d \in Range(store) /\ PassesFilter(d, location)
    IN  Take(SelectSeq(env.sem, Test), k)

\* BM25Retriever.from_documents(docs) with retriever.k = initial_k, invoked
BM25Invoke(env, docs) ==
    LET Test(d) == d \in Range(docs)
    IN  Take(SelectSeq(env.bm, Test), initial_k)

\* the BM25 branch of _hybrid_search
BM25Search(env, location, built, byLocation, all) ==
    IF location # "None" /\ built
    THEN BM25Invoke(env, byLocation[location]) \o BM25Invoke(env, byLocation[GeneralTag])
    ELSE IF all # <<>> THEN BM25Invoke(env, all) ELSE <<>>

(***************************************************************************)
(* Reciprocal Rank Fusion.  Scores weight / (rank + RRF_K) are kept as     *)
(* integers: multiplied by RRF_D, a common multiple of the denominators.   *)
(***************************************************************************)
RECURSIVE Gcd(_, _)
Gcd(a, b) == IF b = 0 THEN a ELSE Gcd(b, a % b)

RECURSIVE LcmUpTo(_, _)
LcmUpTo(lo, hi) ==
    IF hi < lo THEN 1
    ELSE LET rest == LcmUpTo(lo, hi - 1) IN (rest \div Gcd(rest, hi)) * hi

\* the largest rank is below 2 * initial_k (two BM25 lists are concatenated)
RRF_D == LcmUpTo(RRF_K, RRF_K + 2 * initial_k - 1)

RRFScore(weight, rank) == weight * (RRF_D \div (rank + RRF_K))

RECURSIVE RRFAdd_append(_, _, _, _)
RECURSIVE RRFAdd_overwrite(_, _, _, _)
RECURSIVE RRFAdd(_, _, _, _)

\* variant of RRFAdd without the lookup doc_scores.get(content, 0): every
\* position becomes an entry of its own
RRFAdd_append(entries, docs, weight, rank) ==
    IF rank >= Len(docs) THEN entries
    ELSE RRFAdd_append(Append(entries, [content |-> docs[rank + 1].page_content,
                                        key |-> RRFScore(weight, rank),
                                        doc |-> docs[rank + 1]]),
                       docs, weight, rank + 1)

\* variant of RRFAdd: doc_scores[content] = score, the score of the last
\* position replaces the sum
RRFAdd_overwrite(entries, docs, weight, rank) ==
    IF rank >= Len(docs) THEN entries
    ELSE LET doc == docs[rank + 1]
             new == [content |-> doc.page_content, key |-> RRFScore(weight, rank),
                     doc |-> doc]
             i   == IF \E j \in 1..Len(entries) : entries[j].content = doc.page_content
                    THEN CHOOSE j \in 1..Len(entries) : entries[j].content = doc.page_content
                    ELSE 0
         IN  RRFAdd_overwrite(IF i = 0 THEN Append(entries, new)
                              ELSE [entries EXCEPT ![i] = new],
                              docs, weight, rank + 1)

\* one pass of "for rank, doc in enumerate(docs)": entries is the dict
\* doc_scores / doc_map in insertion order
RRFAdd(entries, docs, weight, rank) ==
    IF rank >= Len(docs) THEN entries
    ELSE LET doc   == docs[rank + 1]
             score == RRFScore(weight, rank)
             i     == IF \E j \in 1..Len(entries) : entries[j].content = doc.page_content
                      THEN CHOOSE j \in 1..Len(entries) : entries[j].content = doc.page_content
                      ELSE 0
             next  == IF i = 0
                      THEN Append(entries, [content |-> doc.page_content,
                                            key |-> score, doc |-> doc])
                      ELSE [entries EXCEPT ![i] = [content |-> doc.page_content,
                                                   key |-> entries[i].key + score,
                                                   doc |-> doc]]
         IN  RRFAdd(next, docs, weight, rank + 1)

\* doc_scores after both passes, in insertion order
RRFScores(semantic_docs, bm25_docs) ==
    RRFAdd(RRFAdd(<<>>, semantic_docs, semantic_weight, 0),
           bm25_docs, keyword_weight, 0)

\* doc_scores of an instance constructed with semantic_weight = sw (tenths):
\* keyword_weight = 1.0 - semantic_weight
RRFScoresWith(sw, semantic_docs, bm25_docs) ==
    RRFAdd(RRFAdd(<<>>, semantic_docs, sw, 0), bm25_docs, 10 - sw, 0)

\* the two loops of the RRF step in the other order: the keyword list is
\* folded into doc_scores before the semantic list
RRFScoresKeywordFirst(sw, semantic_docs, bm25_docs) ==
    RRFAdd(RRFAdd(<<>>, bm25_docs, 10 - sw, 0), semantic_docs, sw, 0)

\* rrf_results
RRFResults(semantic_docs, bm25_docs) ==
    LET sorted == SortDesc(RRFScores(semantic_docs, bm25_docs))
    IN  [i \in 1..Len(sorted) |-> sorted[i].doc]

(***************************************************************************)
(* Step 1b: CrossEncoder scoring                                           *)
(***************************************************************************)
\* OnsenRAG._rerank with top_k = None: (doc, score) pairs, score descending
_rerank(env, docs) ==
    IF docs = <<>> THEN <<>>
    ELSE LET pairs  == [i \in 1..Len(docs) |->
                           [doc |-> docs[i], key |-> env.ce[docs[i].page_content]]]
             sorted == SortDesc(pairs)
         IN  [i \in 1..Len(sorted) |-> [doc |-> sorted[i].doc, ce |-> sorted[i].key]]

\* the default of top_k in OnsenGuideRAG._rerank (4 in the source), scaled
\* down as final_k is
guide_top_k == 2

\* OnsenGuideRAG._rerank as _hybrid_search calls it, without top_k:
\* ranked[:top_k] with the default top_k
OnsenGuideRAG_rerank(env, docs) ==
    LET pairs  == [i \in 1..Len(docs) |->
                      [doc |-> docs[i], key |-> env.ce[docs[i].page_content]]]
        ranked == Take(SortDesc(pairs), guide_top_k)
    IN  [i \in 1..Len(ranked) |-> [doc |-> ranked[i].doc, ce |-> ranked[i].key]]

\* self._rerank(question, rrf_results) on an instance of class cls
RerankOf(cls, env, docs) ==
    IF cls = "OnsenGuideRAG" THEN OnsenGuideRAG_rerank(env, docs) ELSE _rerank(env, docs)

(***************************************************************************)
(* Step 2: LLM candidate extraction.  The response text is a sequence of   *)
(* lines, a line a sequence of tokens; ":" is a token of its own.          *)
(***************************************************************************)
\* metadata.get("chunk_id", f"doc_{i+1}"); "<absent>" marks a missing key
AbsentId == "<absent>"
DocN(i) == CASE i = 1 -> "doc_1" [] i = 2 -> "doc_2" [] i = 3 -> "doc_3"
             [] i = 4 -> "doc_4" [] OTHER -> "doc_n"
CandidateId(doc, i) == IF doc.chunk_id = AbsentId THEN DocN(i) ELSE doc.chunk_id

\* float(text): <<value>> when the text parses, <<>> on ValueError
ParseFloat(tokens) ==
    IF Len(tokens) # 1 THEN None
    ELSE CASE tokens[1] = "0"  -> Some(0)
           [] tokens[1] = "3"  -> Some(3)
           [] tokens[1] = "8"  -> Some(8)
           [] tokens[1] = "10" -> Some(10)
           [] tokens[1] = "12" -> Some(12)
           [] tokens[1] = "-1" -> Some(0 - 1)
           [] OTHER -> None

Min2(a, b) == IF a < b THEN a ELSE b
Max2(a, b) == IF a > b THEN a ELSE b

\* position of the last ":" of a line, 0 when there is none
LastColon(line) ==
    IF \E i \in 1..Len(line) : line[i] = ":"
    THEN CHOOSE i \in 1..Len(line) :
             line[i] = ":" /\ \A j \in (i+1)..Len(line) : line[j] # ":"
    ELSE 0

RECURSIVE ParseLines_unclipped(_, _)
RECURSIVE ParseLines(_, _)

\* variant of ParseLines: the parsed score is stored as it is
ParseLines_unclipped(lines, llm_scores) ==
    IF lines = <<>> THEN llm_scores
    ELSE LET line  == Head(lines)
             c     == LastColon(line)
             cid   == SubSeq(line, 1, c - 1)
             value == ParseFloat(SubSeq(line, c + 1, Len(line)))
             i     == IF \E j \in 1..Len(llm_scores) : llm_scores[j].cid = cid
                      THEN CHOOSE j \in 1..Len(llm_scores) : llm_scores[j].cid = cid
                      ELSE 0
         IN  IF c = 0 \/ value = None
             THEN ParseLines_unclipped(Tail(lines), llm_scores)
             ELSE ParseLines_unclipped(Tail(lines),
                      IF i = 0
                      THEN Append(llm_scores, [cid |-> cid, score |-> value[1]])
                      ELSE [llm_scores EXCEPT ![i] = [cid |-> cid, score |-> value[1]]])

\* the parse loop: llm_scores as a sequence of [cid, score], later lines
\* overwriting earlier ones
ParseLines(lines, llm_scores) ==
    IF lines = <<>> THEN llm_scores
    ELSE LET line  == Head(lines)
             c     == LastColon(line)
             cid   == SubSeq(line, 1, c - 1)
             value == ParseFloat(SubSeq(line, c + 1, Len(line)))
             score == Max2(0, Min2(10, value[1]))
             i     == IF \E j \in 1..Len(llm_scores) : llm_scores[j].cid = cid
                      THEN CHOOSE j \in 1..Len(llm_scores) : llm_scores[j].cid = cid
                      ELSE 0
         IN  IF c = 0 \/ value = None
             THEN ParseLines(Tail(lines), llm_scores)
             ELSE ParseLines(Tail(lines),
                      IF i = 0
                      THEN Append(llm_scores, [cid |-> cid, score |-> score])
                      ELSE [llm_scores EXCEPT ![i] = [cid |-> cid, score |-> score]])

\* llm_scores.get(cid, 0.0)
LLMScoreOf(llm_scores, cid) ==
    IF \E j \in 1..Len(llm_scores) : llm_scores[j].cid = <<cid>>
    THEN llm_scores[CHOOSE j \in 1..Len(llm_scores) : llm_scores[j].cid = <<cid>>].score
    ELSE 0

\* doc_map: chunk_id -> (doc, ce_score), in insertion order; a repeated id
\* keeps its position and takes the later value
RECURSIVE BuildDocMap(_, _, _)
BuildDocMap(scored_docs, i, doc_map) ==
    IF i > Len(scored_docs) THEN doc_map
    ELSE LET cid == CandidateId(scored_docs[i].doc, i)
             e   == [cid |-> cid, doc |-> scored_docs[i].doc, ce |-> scored_docs[i].ce]
             j   == IF \E n \in 1..Len(doc_map) : doc_map[n].cid = cid
                    THEN CHOOSE n \in 1..Len(doc_map) : doc_map[n].cid = cid
                    ELSE 0
         IN  BuildDocMap(scored_docs, i + 1,
                         IF j = 0 THEN Append(doc_map, e) ELSE [doc_map EXCEPT ![j] = e])

\* variant of _llm_extract_candidates: on a failed LLM call every scored
\* document is returned
_llm_extract_candidates_uncut(env, scored_docs, top_k) ==
    IF scored_docs = <<>> THEN <<>>
    ELSE IF env.llm.fail
    THEN [i \in 1..Len(scored_docs) |->
             [doc |-> scored_docs[i].doc, ce |-> scored_docs[i].ce, llm |-> 0]]
    ELSE LET doc_map    == BuildDocMap(scored_docs, 1, <<>>)
             llm_scores == ParseLines(env.llm.lines, <<>>)
             results    == [i \in 1..Len(doc_map) |->
                               [doc |-> doc_map[i].doc, ce |-> doc_map[i].ce,
                                key |-> LLMScoreOf(llm_scores, doc_map[i].cid)]]
             top        == Take(SortDesc(results), top_k)
         IN  [i \in 1..Len(top) |-> [doc |-> top[i].doc, ce |-> top[i].ce, llm |-> top[i].key]]

\* OnsenRAG._llm_extract_candidates: (doc, ce, llm) triples
_llm_extract_candidates(env, scored_docs, top_k) ==
    IF scored_docs = <<>> THEN <<>>
    ELSE IF env.llm.fail
    THEN LET head == Take(scored_docs, top_k)
         IN  [i \in 1..Len(head) |-> [doc |-> head[i].doc, ce |-> head[i].ce, llm |-> 0]]
    ELSE LET doc_map    == BuildDocMap(scored_docs, 1, <<>>)
             llm_scores == ParseLines(env.llm.lines, <<>>)
             results    == [i \in 1..Len(doc_map) |->
                               [doc |-> doc_map[i].doc, ce |-> doc_map[i].ce,
                                key |-> LLMScoreOf(llm_scores, doc_map[i].cid)]]
             top        == Take(SortDesc(results), top_k)
         IN  [i \in 1..Len(top) |-> [doc |-> top[i].doc, ce |-> top[i].ce, llm |-> top[i].key]]

(***************************************************************************)
(* Step 3: final selection                                                 *)
(***************************************************************************)
\* ce_weight = 0.4 and llm_weight = 0.6, in tenths
ce_weight == 4
llm_weight == 6

SeqMin(s) == CHOOSE x \in Range(s) : \A y \in Range(s) : x <= y
SeqMax(s) == CHOOSE x \in Range(s) : \A y \in Range(s) : x >= y

\* variant of Confident: a score equal to the threshold does not pass
Confident_strict(candidates) ==
    LET Test(c) == c.ce > CONFIDENCE_THRESHOLD
    IN  SelectSeq(candidates, Test)

\* confident: the candidates that pass the confidence filter
Confident(candidates) ==
    LET Test(c) == c.ce >= CONFIDENCE_THRESHOLD
    IN  SelectSeq(candidates, Test)

\* variant of FinalScored: the rerank score enters as it is, without the
\* min-max scaling (final_score multiplied by 100)
FinalScored_raw(confident) ==
    [i \in 1..Len(confident) |->
        [doc |-> confident[i].doc,
         key |-> ce_weight * confident[i].ce * 10 + llm_weight * confident[i].llm,
         ce  |-> confident[i].ce,
         llm |-> confident[i].llm]]

\* final_score of each confident candidate, multiplied by 100 * ce_range
FinalScored(confident) ==
    LET ce_scores == [i \in 1..Len(confident) |-> confident[i].ce]
        ce_min    == SeqMin(ce_scores)
        ce_max    == SeqMax(ce_scores)
        ce_range  == IF ce_max # ce_min THEN ce_max - ce_min ELSE 1
    IN  [i \in 1..Len(confident) |->
            [doc |-> confident[i].doc,
             key |-> ce_weight * (confident[i].ce - ce_min) * 10
                     + llm_weight * confident[i].llm * ce_range,
             ce  |-> confident[i].ce,
             llm |-> confident[i].llm]]

\* variant of _final_selection: with no confident candidate the best of
\* the others are returned
_final_selection_padded(candidates, top_k) ==
    IF candidates = <<>> THEN <<>>
    ELSE LET confident   == IF Confident(candidates) = <<>> THEN candidates
                            ELSE Confident(candidates)
             top_results == Take(SortDesc(FinalScored(confident)), top_k)
         IN  [i \in 1..Len(top_results) |-> top_results[i].doc]

\* OnsenRAG._final_selection
_final_selection(candidates, top_k) ==
    IF candidates = <<>> THEN <<>>
    ELSE LET confident == Confident(candidates)
         IN  IF confident = <<>> THEN <<>>
             ELSE LET top_results == Take(SortDesc(FinalScored(confident)), top_k)
                  IN  [i \in 1..Len(top_results) |-> top_results[i].doc]

(***************************************************************************)
(* OnsenRAG._hybrid_search                                                 *)
(***************************************************************************)
\* "if location: ... elif self._last_location: location = self._last_location"
LocationInEffect(detected, last) == IF detected # "None" THEN detected ELSE last

\* "if location: self._last_location = location"
NextLastLocation(detected, last) == IF detected # "None" THEN detected ELSE last

\* location detection and the conversational context
Located(detected) ==
    [detected      |-> detected,
     location      |-> LocationInEffect(detected, _last_location),
     last_location |-> NextLastLocation(detected, _last_location)]

\* Step 1a: semantic search and BM25 search under the location in effect
Retrieved(env, run) ==
    run @@ [semantic_docs |-> SemanticSearch(env, vectorstore[1], run.location, initial_k),
            bm25_docs     |-> BM25Search(env, run.location, bm25_built,
                                         _bm25_by_location, _bm25_all)]

\* RRF fusion
Fused(run) ==
    run @@ [rrf_results |-> RRFResults(run.semantic_docs, run.bm25_docs)]

\* Step 1b; cross_encoder.predict is reached only with candidates
Reranked(env, run) ==
    run @@ [rerank_raises |-> env.fail = "rerank" /\ run.rrf_results # <<>>,
            scored_docs   |-> _rerank(env, run.rrf_results)]

\* the number of chain.invoke calls of one _llm_extract_candidates: none
\* when there are no candidates, else the single call of the try block
LLMCalls(scored_docs) == IF scored_docs = <<>> THEN 0 ELSE 1

\* variant of Judged: skipped when there are fewer than final_k + 2 candidates
Judged_eager(env, run) ==
    run @@ [llm_calls      |-> IF Len(run.scored_docs) >= final_k + 2
                               THEN LLMCalls(run.scored_docs) ELSE 0,
            llm_called     |-> Len(run.scored_docs) >= final_k + 2,
            llm_candidates |->
                IF Len(run.scored_docs) >= final_k + 2
                THEN _llm_extract_candidates(env, run.scored_docs, final_k + 2)
                ELSE [i \in 1..Len(run.scored_docs) |->
                         [doc |-> run.scored_docs[i].doc,
                          ce  |-> run.scored_docs[i].ce, llm |-> 0]]]

\* Step 2, skipped when there are at most final_k + 2 candidates
Judged(env, run) ==
    run @@ [llm_calls      |-> IF Len(run.scored_docs) > final_k + 2
                               THEN LLMCalls(run.scored_docs) ELSE 0,
            llm_called     |-> Len(run.scored_docs) > final_k + 2,
            llm_candidates |->
                IF Len(run.scored_docs) > final_k + 2
                THEN _llm_extract_candidates(env, run.scored_docs, final_k + 2)
                ELSE [i \in 1..Len(run.scored_docs) |->
                         [doc |-> run.scored_docs[i].doc,
                          ce  |-> run.scored_docs[i].ce, llm |-> 0]]]

\* Step 3
Selected(k, run) ==
    run @@ [final_results |-> _final_selection(run.llm_candidates, k)]

\* the stages of one run and what each of them produced
_hybrid_search(question, k, env) ==
    Selected(k, Judged(env, Reranked(env, Fused(Retrieved(env,
        Located(_detect_location(question)))))))

(***************************************************************************)
(* OnsenRAG.query and OnsenRAG.search_chunks as functions of the state     *)
(***************************************************************************)
\* the chunk_ids list built by query
ChunkIds(docs) ==
    [i \in 1..Len(docs) |->
        IF docs[i].chunk_id \in {AbsentId, ""} THEN DocN(i) ELSE docs[i].chunk_id]

\* the result dict of query
QueryResult(env, hs) ==
    [result           |-> env.answer,
     source_documents |-> hs.final_results,
     chunk_ids        |-> ChunkIds(hs.final_results)]

\* the stages a run went through up to the answer
StagesRun(hs) ==
    {"detect", "fusion", "rerank", "select", "answer"}
        \cup (IF hs.llm_called THEN {"judge"} ELSE {})

\* variant of QueryOutcome: the location context is updated before the
\* cache is looked up
QueryOutcome_context_first(key, env, got, hs) ==
    IF vectorstore = None
    THEN [outcome |-> "not_ready", ret |-> None, cache |-> _query_cache,
          last_location |-> _last_location, location |-> "None",
          detected |-> "None", stages |-> {}]
    ELSE IF got.ret # None
    THEN [outcome |-> "hit", ret |-> got.ret, cache |-> got.cache,
          last_location |-> hs.last_location, location |-> "None",
          detected |-> "None", stages |-> {}]
    ELSE IF hs.rerank_raises
    THEN [outcome |-> "error", ret |-> None, cache |-> got.cache,
          last_location |-> hs.last_location, location |-> hs.location,
          detected |-> hs.detected,
          stages |-> {"detect", "fusion", "rerank"}]
    ELSE IF env.fail = "answer"
    THEN [outcome |-> "error", ret |-> None, cache |-> got.cache,
          last_location |-> hs.last_location, location |-> hs.location,
          detected |-> hs.detected, stages |-> StagesRun(hs)]
    ELSE [outcome |-> "ok", ret |-> Some(QueryResult(env, hs)),
          cache |-> _put_to_cache(got.cache, key, QueryResult(env, hs), now),
          last_location |-> hs.last_location, location |-> hs.location,
          detected |-> hs.detected, stages |-> StagesRun(hs)]

\* the body of query: got is what the cache lookup gave, hs the pipeline
\* run, which is reached on a miss only
QueryOutcome(key, env, got, hs) ==
    IF vectorstore = None
    THEN [outcome |-> "not_ready", ret |-> None, cache |-> _query_cache,
          last_location |-> _last_location, location |-> "None",
          detected |-> "None", stages |-> {}]
    ELSE IF got.ret # None
    THEN [outcome |-> "hit", ret |-> got.ret, cache |-> got.cache,
          last_location |-> _last_location, location |-> "None",
          detected |-> "None", stages |-> {}]
    ELSE IF hs.rerank_raises
    THEN [outcome |-> "error", ret |-> None, cache |-> got.cache,
          last_location |-> hs.last_location, location |-> hs.location,
          detected |-> hs.detected,
          stages |-> {"detect", "fusion", "rerank"}]
    ELSE IF env.fail = "answer"
    THEN [outcome |-> "error", ret |-> None, cache |-> got.cache,
          last_location |-> hs.last_location, location |-> hs.location,
          detected |-> hs.detected, stages |-> StagesRun(hs)]
    ELSE [outcome |-> "ok", ret |-> Some(QueryResult(env, hs)),
          cache |-> _put_to_cache(got.cache, key, QueryResult(env, hs), now),
          last_location |-> hs.last_location, location |-> hs.location,
          detected |-> hs.detected, stages |-> StagesRun(hs)]

\* OnsenRAG.query: outcome, returned value and the new cache and context
QueryCall(question, k, env) ==
    QueryOutcome(_cache_key(question, k), env,
                 _get_from_cache(_query_cache, _cache_key(question, k), now),
                 _hybrid_search(question, k, env))

\* the body of search_chunks, hs being the pipeline run
SearchOutcome(hs) ==
    IF vectorstore = None
    THEN [outcome |-> "not_ready", docs |-> <<>>,
          last_location |-> _last_location, location |-> "None",
          detected |-> "None", stages |-> {}]
    ELSE IF hs.rerank_raises
    THEN [outcome |-> "error", docs |-> <<>>,
          last_location |-> hs.last_location, location |-> hs.location,
          detected |-> hs.detected,
          stages |-> {"detect", "fusion", "rerank"}]
    ELSE [outcome |-> "ok", docs |-> hs.final_results,
          last_location |-> hs.last_location, location |-> hs.location,
          detected |-> hs.detected,
          stages |-> StagesRun(hs) \ {"answer"}]

\* OnsenRAG.search_chunks
SearchCall(question, k, env) == SearchOutcome(_hybrid_search(question, k, env))

(***************************************************************************)
(* OnsenRAG.evaluate: the questions of the file are searched one after the *)
(* other, each search starting from the context the one before left.       *)
(***************************************************************************)
\* "docs = self.search_chunks(question, k=3)"
EvaluateK == 3

\* _hybrid_search started from the context tag last
HybridSearchFrom(last, question, k, env) ==
    Selected(k, Judged(env, Reranked(env, Fused(Retrieved(env,
        [detected      |-> _detect_location(question),
         location      |-> LocationInEffect(_detect_location(question), last),
         last_location |-> NextLastLocation(_detect_location(question), last)])))))

\* matched_keywords: the keywords found in the text of the returned chunks,
\* a keyword being named by the content that holds it
MatchedKeywords(keywords, docs) ==
    LET Found(kw) == \E i \in 1..Len(docs) : docs[i].page_content = kw
    IN  SelectSeq(keywords, Found)

\* status of a question: match_rate >= 0.5, > 0, or 0 (no keyword: 0.0)
EvalStatus(keywords, matched) ==
    IF keywords # <<>> /\ 2 * Len(matched) >= Len(keywords) THEN "[OK]"
    ELSE IF keywords # <<>> /\ Len(matched) > 0 THEN "[WARN]"
    ELSE "[BAD]"

\* one entry of the results list
EvalEntry(q, docs) ==
    [question         |-> q.question,
     matched_keywords |-> MatchedKeywords(q.keywords, docs),
     status           |-> EvalStatus(q.keywords, MatchedKeywords(q.keywords, docs))]

\* one turn of the loop, hs being the pipeline run of the question
RECURSIVE EvalLoop(_, _, _, _)
EvalTurn(qs, env, results, hs) ==
    IF hs.rerank_raises
    THEN [outcome |-> "error", results |-> <<>>, last_location |-> hs.last_location]
    ELSE EvalLoop(Tail(qs), env, hs.last_location,
                  Append(results, EvalEntry(Head(qs), hs.final_results)))

\* "for q in data["questions"]"
EvalLoop(qs, env, last, results) ==
    IF qs = <<>>
    THEN [outcome |-> "ok", results |-> results, last_location |-> last]
    ELSE EvalTurn(qs, env, results,
                  HybridSearchFrom(last, Head(qs).question, EvaluateK, env))

\* OnsenRAG.evaluate; file is the questions file, <<>> when it cannot be read
EvaluateCall(file, env) ==
    IF vectorstore = None
    THEN [outcome |-> "not_ready", results |-> <<>>, last_location |-> _last_location]
    ELSE IF file = None
    THEN [outcome |-> "error", results |-> <<>>, last_location |-> _last_location]
    ELSE EvalLoop(file[1], env, _last_location, <<>>)

(***************************************************************************)
(* History variables.  recency records the puts and hits as they are       *)
(* observed at the interface of query: one record per key whose last put   *)
(* has neither expired on a get nor been evicted, least recently used      *)
(* (inserted or hit) first.                                                *)
(***************************************************************************)
Completed(q) == q.op \in {"query", "search"} /\ q.outcome \in {"hit", "ok"}

\* the location named by the text of the call q, when q completed
TextTag(q) == IF Completed(q) THEN _detect_location(q.question) ELSE "None"

\* number of locations whose keyword the question contains
MatchCount(question) ==
    Cardinality({i \in 1..Len(LOCATION_KEYWORDS) :
                    \E j \in 1..Len(LOCATION_KEYWORDS[i].keywords) :
                        Contains(question, LOCATION_KEYWORDS[i].keywords[j])})

Forget(order, keys) ==
    LET Kept(x) == x.key \notin keys IN SelectSeq(order, Kept)

Touch(order, rec) == Append(Forget(order, {rec.key}), rec)

\* the record of key, <<>> when there is none
Recorded(order, key) ==
    LET Is(x) == x.key = key IN SelectSeq(order, Is)

NoCall ==
    [op |-> "none", session |-> "none", question |-> <<>>, k |-> 0,
     outcome |-> "none", ret |-> None, docs |-> <<>>, location |-> "None",
     detected |-> "None", stages |-> {}, stored |-> None, age |-> None,
     renewed |-> FALSE, evicted |-> {}, evictedAt |-> {}, full |-> FALSE,
     lru |-> None, prevTag |-> "None"]

\* no stage has been applied
NoProbe == [fn |-> "none", args |-> <<>>, done |-> FALSE, out |-> <<>>]

\* the record of a stage fn about to be applied to args
Pending(fn, args) == [fn |-> fn, args |-> args, done |-> FALSE, out |-> <<>>]

\* the record of a stage fn applied to args with output out
Applied(fn, args, out) == [fn |-> fn, args |-> args, done |-> TRUE, out |-> out]

\* the record of a run of _hybrid_search; there is no run before a load
RunProbe(question, k, env) ==
    IF vectorstore = None THEN NoProbe
    ELSE Applied("_hybrid_search", [question |-> question, k |-> k, env |-> env],
                 _hybrid_search(question, k, env))

\* a caller with no query under way
Idle == [pc |-> "idle"]

(***************************************************************************)
(* Actions                                                                 *)
(***************************************************************************)
Sessions == {"s1", "s2"}

Init ==
    /\ vectorstore = None
    /\ documents = <<>>
    /\ bm25_built = FALSE
    /\ _bm25_all = <<>>
    /\ _bm25_by_location = [loc \in Locations \cup {GeneralTag} |-> <<>>]
    /\ _query_cache = <<>>
    /\ _last_location = "None"
    /\ now = 0
    /\ lastQ = NoCall
    /\ recency = <<>>
    /\ sessionTags = [s \in Sessions |-> {}]
    /\ loaded = FALSE
    /\ probe = NoProbe
    /\ inflight = [s \in Sessions |-> Idle]

\* the clock advances
Tick ==
    /\ now < MaxTime
    /\ now' = now + 1
    /\ UNCHANGED <<vectorstore, documents, bm25_built, _bm25_all, _bm25_by_location,
                   _query_cache, _last_location, lastQ, recency, sessionTags,
                   loaded, probe, inflight>>

\* OnsenRAG._build_bm25_cache for the documents docs
BM25ByLocation(docs) ==
    [loc \in Locations \cup {GeneralTag} |->
        LET Test(d) == d.location = loc IN SelectSeq(docs, Test)]

\* OnsenRAG.load_json_chunks, the chunk files holding corpus
LoadJsonChunks(corpus) ==
    /\ corpus # <<>>
    /\ documents' = corpus
    /\ vectorstore' = Some(corpus)
    /\ bm25_built' = TRUE
    /\ _bm25_all' = corpus
    /\ _bm25_by_location' = BM25ByLocation(corpus)
    /\ loaded' = TRUE
    /\ UNCHANGED <<_query_cache, _last_location, now, lastQ, recency, sessionTags,
                   probe, inflight>>

\* OnsenRAG.load_data, the text file splitting into the chunks splits: the
\* documents and the vector store are replaced, _build_bm25_cache is not
\* called
LoadData(splits) ==
    /\ documents' = splits
    /\ vectorstore' = Some(splits)
    /\ loaded' = TRUE
    /\ UNCHANGED <<bm25_built, _bm25_all, _bm25_by_location, _query_cache,
                   _last_location, now, lastQ, recency, sessionTags, probe, inflight>>

\* the statements of load_json_chunks that can raise: reading the chunk
\* files, building the vector store, saving the data hash, building the
\* all-documents BM25 retriever, building a per-location retriever
LoadFailPoints == {"read", "embed", "save_hash", "bm25_all", "bm25_location"}

\* _bm25_by_location when the retriever of the second location raised
BM25ByLocationPartial(docs) ==
    [loc \in Locations \cup {GeneralTag} |->
        IF loc = LOCATION_KEYWORDS[1].location
        THEN BM25ByLocation(docs)[loc] ELSE <<>>]

\* OnsenRAG.load_json_chunks raising at the statement named by at
LoadJsonChunksFails(corpus, at) ==
    /\ at \in LoadFailPoints
    /\ documents' = IF at = "read" THEN documents ELSE corpus
    /\ vectorstore' = IF at \in {"read", "embed"} THEN vectorstore ELSE Some(corpus)
    /\ _bm25_all' = IF at = "bm25_location" THEN corpus ELSE _bm25_all
    /\ bm25_built' = IF at = "bm25_location" THEN TRUE ELSE bm25_built
    /\ _bm25_by_location' = IF at = "bm25_location" THEN BM25ByLocationPartial(corpus)
                            ELSE _bm25_by_location
    /\ lastQ' = [NoCall EXCEPT !.op = "load", !.outcome = "error"]
    /\ UNCHANGED <<_query_cache, _last_location, now, recency, sessionTags,
                   loaded, probe, inflight>>

\* history of the session: the locations its own questions name
NoteSession(s, question) ==
    sessionTags' =
        [sessionTags EXCEPT ![s] =
            @ \cup (IF _detect_location(question) # "None"
                    THEN {_detect_location(question)} ELSE {})]

\* the get of a call shows an expired removal: the key was stored and is
\* gone after the get
Expired(key) ==
    /\ vectorstore # None
    /\ key \in CacheKeys(_query_cache)
    /\ key \notin CacheKeys(_get_from_cache(_query_cache, key, now).cache)

\* recency after the get of a call
AfterGet(key, call, rec, expired) ==
    IF expired THEN Forget(recency, {key})
    ELSE IF call.outcome = "hit" /\ rec # <<>> THEN Touch(recency, rec[1])
    ELSE recency

\* the keys a put removed
Evicted(key, call, expired) ==
    IF call.outcome = "ok"
    THEN ((IF expired THEN CacheKeys(_query_cache) \ {key} ELSE CacheKeys(_query_cache))
            \ CacheKeys(call.cache))
    ELSE {}

\* the effect of the call of query on the state and on the history
QueryEffect(s, question, k, key, call, rec, expired, afterGet, evicted) ==
    /\ _query_cache' = call.cache
    /\ _last_location' = call.last_location
    /\ lastQ' = [op |-> "query", session |-> s, question |-> question, k |-> k,
                 outcome |-> call.outcome, ret |-> call.ret,
                 docs |-> IF call.ret = None THEN <<>>
                          ELSE call.ret[1].source_documents,
                 location |-> call.location, detected |-> call.detected,
                 stages |-> call.stages,
                 stored |-> IF vectorstore # None /\ rec # <<>>
                            THEN Some(rec[1].result) ELSE None,
                 age |-> IF vectorstore # None /\ rec # <<>>
                         THEN Some(now - rec[1].timestamp) ELSE None,
                 renewed |-> vectorstore # None /\ rec # <<>> /\ rec[1].renewed,
                 evicted |-> evicted,
                 evictedAt |-> {r.timestamp : r \in {x \in Range(recency) :
                                                        x.key \in evicted}},
                 full |-> call.outcome = "ok"
                          /\ Cardinality(CacheKeys(_query_cache)
                                         \ (IF expired THEN {key} ELSE {}))
                                >= cache_maxsize,
                 lru |-> IF afterGet = <<>> THEN None ELSE Some(Head(afterGet).key),
                 prevTag |-> TextTag(lastQ)]
    /\ recency' = IF call.outcome = "ok"
                  THEN Touch(Forget(afterGet, evicted),
                             [key |-> key, result |-> call.ret[1], timestamp |-> now,
                              renewed |-> expired])
                  ELSE afterGet
    /\ NoteSession(s, question)
    /\ UNCHANGED <<vectorstore, documents, bm25_built, _bm25_all,
                   _bm25_by_location, now, loaded, probe, inflight>>

QueryObserved(s, question, k, key, call, rec, expired) ==
    QueryEffect(s, question, k, key, call, rec, expired,
                AfterGet(key, call, rec, expired), Evicted(key, call, expired))

\* OnsenRAG.query(question, k) called by session s
Query(s, question, k, env) ==
    QueryObserved(s, question, k, _cache_key(question, k), QueryCall(question, k, env),
                  Recorded(recency, _cache_key(question, k)),
                  Expired(_cache_key(question, k)))

\* the effect of the call of search_chunks
SearchEffect(s, question, k, call) ==
    /\ _last_location' = call.last_location
    /\ lastQ' = [op |-> "search", session |-> s, question |-> question, k |-> k,
                 outcome |-> call.outcome, ret |-> None, docs |-> call.docs,
                 location |-> call.location, detected |-> call.detected,
                 stages |-> call.stages, stored |-> None, age |-> None,
                 renewed |-> FALSE, evicted |-> {}, evictedAt |-> {},
                 full |-> FALSE, lru |-> None, prevTag |-> TextTag(lastQ)]
    /\ NoteSession(s, question)
    /\ UNCHANGED <<vectorstore, documents, bm25_built, _bm25_all,
                   _bm25_by_location, _query_cache, now, recency, loaded, inflight>>

\* OnsenRAG.search_chunks(question, k) called by session s
SearchChunks(s, question, k, env) ==
    /\ SearchEffect(s, question, k, SearchCall(question, k, env))
    /\ probe' = RunProbe(question, k, env)

\* the effect of the call of evaluate
EvaluateEffect(s, file, call) ==
    /\ _last_location' = call.last_location
    /\ lastQ' = [NoCall EXCEPT !.op = "evaluate", !.session = s,
                               !.outcome = call.outcome,
                               !.ret = Some(call.results),
                               !.prevTag = TextTag(lastQ)]
    /\ UNCHANGED <<vectorstore, documents, bm25_built, _bm25_all, _bm25_by_location,
                   _query_cache, now, recency, sessionTags, loaded, probe, inflight>>

\* OnsenRAG.evaluate(questions_path) called by session s
Evaluate(s, file, env) == EvaluateEffect(s, file, EvaluateCall(file, env))

\* OnsenRAG._detect_location(question) called on its own
DetectLocation(question) ==
    /\ lastQ' = [NoCall EXCEPT !.op = "detect", !.question = question,
                                !.outcome = "ok",
                                !.detected = _detect_location(question)]
    /\ UNCHANGED <<vectorstore, documents, bm25_built, _bm25_all, _bm25_by_location,
                   _query_cache, _last_location, now, recency, sessionTags,
                   loaded, probe, inflight>>

(***************************************************************************)
(* Inputs                                                                  *)
(***************************************************************************)
Contents == {d.page_content : d \in AllDocs}

\* requested result counts
Ks == {1, 2}

JudgeLines ==
    << <<"kusatsu_001", ":", "8">>, <<"hakone_001", ":", "12">>,
       <<"no colon here">>, <<"onsen_001", ":", "high">>,
       <<"note", ":", "onsen_002", ":", "3">> >>

EnvA ==
    [sem |-> <<DocK1, DocH1, DocO1, DocO2>>, bm |-> <<DocH1, DocO2, DocK1, DocO1>>,
     ce |-> [c \in Contents |-> 0],
     llm |-> [fail |-> FALSE, lines |-> JudgeLines], answer |-> "a1", fail |-> "none"]

EnvB ==
    [sem |-> <<DocO2, DocH1, DocK1, DocO1>>, bm |-> <<DocO1, DocK1, DocH1, DocO2>>,
     ce |-> [c \in Contents |->
                CASE c = "k1" -> 0 - 4 [] c = "h1" -> 2 [] c = "o1" -> 0 - 3 [] OTHER -> 1],
     llm |-> [fail |-> TRUE, lines |-> <<>>], answer |-> "a2", fail |-> "none"]

EnvLow == [EnvA EXCEPT !.ce = [c \in Contents |-> 0 - 4]]

EnvRerankFails == [EnvA EXCEPT !.fail = "rerank"]

EnvAnswerFails == [EnvB EXCEPT !.fail = "answer"]

\* the judgment prefers chunks that the CrossEncoder scores below the
\* confidence threshold
EnvJudgePrefersLow ==
    [EnvB EXCEPT !.ce = [c \in Contents |->
                            CASE c = "k1" -> 0 - 4 [] c = "h1" -> 0 - 4
                              [] c = "o1" -> 2 [] OTHER -> 1],
                 !.llm = [fail |-> FALSE, lines |-> JudgeLines]]

\* the capability behaviours drawn per call
Envs == {EnvA, EnvB, EnvLow, EnvRerankFails, EnvAnswerFails, EnvJudgePrefersLow}

(***************************************************************************)
(* Spec: one caller and the clock; the calls and capability behaviours     *)
(* are drawn from CacheCalls and CacheEnvs.                                *)
(***************************************************************************)
Load == LoadJsonChunks(JsonCorpus)

\* (question, k) pairs of the calls
CacheCalls == {<<QKusatsu, 1>>, <<QPlain, 1>>, <<QPlain, 2>>}

CacheEnvs == {EnvA, EnvB}

QueryStep == \E c \in CacheCalls, env \in CacheEnvs : Query("s1", c[1], c[2], env)

Next == Load \/ Tick \/ QueryStep

Spec == Init /\ [][Next]_vars

(***************************************************************************)
(* SpecContext: two callers share the instance, the clock standing still.  *)
(***************************************************************************)
ContextCalls == {<<QKusatsu, 1>>, <<QHakone, 1>>, <<QPlain, 1>>}

ContextEnvs == {EnvA, EnvB, EnvRerankFails}

ContextQuery ==
    \E s \in Sessions, c \in ContextCalls, env \in ContextEnvs : Query(s, c[1], c[2], env)

NextContext == Load \/ ContextQuery

SpecContext == Init /\ [][NextContext]_vars

(***************************************************************************)
(* SpecSearch: chunk searches and location detection, over every question, *)
(* result count and capability behaviour.                                  *)
(***************************************************************************)
QRepeat == <<"Hakone", "cafe", "Hakone">>

DetectQuestions == Questions \cup {QRepeat, <<>>}

SearchStep ==
    \E q \in Questions, k \in Ks, env \in Envs : SearchChunks("s1", q, k, env)

DetectStep == \E q \in DetectQuestions : DetectLocation(q)

NextSearch == Load \/ SearchStep \/ DetectStep

SpecSearch == Init /\ [][NextSearch]_vars

(***************************************************************************)
(* SpecOps: the three query-time operations and the load, in any order.    *)
(***************************************************************************)
\* the questions files: unreadable, empty, and two with questions
EvalFiles ==
    {None,
     Some(<<>>),
     Some(<< [question |-> QKusatsu, keywords |-> <<"k1", "h1">>],
             [question |-> QPlain,   keywords |-> <<"h1">>] >>),
     Some(<< [question |-> QPlain,   keywords |-> <<>>],
             [question |-> QHakone,  keywords |-> <<"h1", "k1", "o1">>] >>)}

OpsEnvs == {EnvA, EnvRerankFails}

OpsQuery == \E q \in {QKusatsu, QPlain} : Query("s1", q, 1, EnvA)

OpsSearch == \E env \in OpsEnvs : SearchChunks("s1", QHakone, 1, env)

EvaluateStep == \E file \in EvalFiles, env \in OpsEnvs : Evaluate("s1", file, env)

OpsLoadFails == \E at \in LoadFailPoints : LoadJsonChunksFails(JsonCorpus, at)

NextOps == Load \/ OpsLoadFails \/ OpsQuery \/ OpsSearch \/ EvaluateStep

SpecOps == Init /\ [][NextOps]_vars

(***************************************************************************)
(* SpecConcurrent: two callers run query on the one instance at the same   *)
(* time.  The code takes no lock, so the statements of _get_from_cache and *)
(* _put_to_cache of the two calls interleave; a step is one statement.     *)
(* inflight[s].pc is the statement caller s executes next; "raised" means  *)
(* its last call ended in a KeyError of the OrderedDict.                   *)
(***************************************************************************)
\* the rest of the state is left alone by the steps of a concurrent query
ConcurrentFrame ==
    UNCHANGED <<vectorstore, documents, bm25_built, _bm25_all, _bm25_by_location,
                now, lastQ, sessionTags, loaded, probe>>

\* caller s goes to statement pc
Goto(s, pc) == inflight' = [inflight EXCEPT ![s].pc = pc]

\* query is entered: the readiness test and the cache key
CallQuery(s, question, k) ==
    /\ inflight[s].pc \in {"idle", "raised"}
    /\ vectorstore # None
    /\ inflight' = [inflight EXCEPT ![s] =
           [pc |-> "get_contains", question |-> question, k |-> k,
            key |-> _cache_key(question, k), entry |-> None, result |-> None]]
    /\ UNCHANGED <<_query_cache, _last_location, recency>>
    /\ ConcurrentFrame

\* "if key not in self._query_cache: return None"
GetContains(s) ==
    /\ inflight[s].pc = "get_contains"
    /\ Goto(s, IF KeyIndex(_query_cache, inflight[s].key) = 0
                THEN "search" ELSE "get_read")
    /\ UNCHANGED <<_query_cache, _last_location, recency>>
    /\ ConcurrentFrame

\* "entry = self._query_cache[key]"
GetRead(s) ==
    /\ inflight[s].pc = "get_read"
    /\ inflight' =
          IF KeyIndex(_query_cache, inflight[s].key) = 0
          THEN [inflight EXCEPT ![s].pc = "raised"]
          ELSE [inflight EXCEPT
                  ![s].pc = "get_ttl",
                  ![s].entry = Some(_query_cache[KeyIndex(_query_cache, inflight[s].key)])]
    /\ UNCHANGED <<_query_cache, _last_location, recency>>
    /\ ConcurrentFrame

\* "if time.time() - entry["timestamp"] > self._cache_ttl"
GetTTL(s) ==
    /\ inflight[s].pc = "get_ttl"
    /\ Goto(s, IF now - inflight[s].entry[1].timestamp > cache_ttl
                THEN "get_del" ELSE "get_move")
    /\ UNCHANGED <<_query_cache, _last_location, recency>>
    /\ ConcurrentFrame

\* "del self._query_cache[key]; return None"
GetDel(s) ==
    /\ inflight[s].pc = "get_del"
    /\ Goto(s, IF KeyIndex(_query_cache, inflight[s].key) = 0 THEN "raised" ELSE "search")
    /\ _query_cache' =
          IF KeyIndex(_query_cache, inflight[s].key) = 0 THEN _query_cache
          ELSE RemoveAt(_query_cache, KeyIndex(_query_cache, inflight[s].key))
    /\ recency' = Forget(recency, {inflight[s].key})
    /\ UNCHANGED _last_location
    /\ ConcurrentFrame

\* "self._query_cache.move_to_end(key); return entry["result"]"
GetMove(s) ==
    /\ inflight[s].pc = "get_move"
    /\ Goto(s, IF KeyIndex(_query_cache, inflight[s].key) = 0 THEN "raised" ELSE "idle")
    /\ _query_cache' =
          IF KeyIndex(_query_cache, inflight[s].key) = 0 THEN _query_cache
          ELSE Append(RemoveAt(_query_cache, KeyIndex(_query_cache, inflight[s].key)),
                      _query_cache[KeyIndex(_query_cache, inflight[s].key)])
    /\ recency' =
          IF Recorded(recency, inflight[s].key) = <<>> THEN recency
          ELSE Touch(recency, Recorded(recency, inflight[s].key)[1])
    /\ UNCHANGED _last_location
    /\ ConcurrentFrame

\* the miss path up to the result dict: _hybrid_search and the answer
SearchAndAnswer(s, env) ==
    /\ inflight[s].pc = "search"
    /\ inflight' = [inflight EXCEPT
          ![s].pc = "put_len",
          ![s].result = Some(QueryResult(env,
                            _hybrid_search(inflight[s].question, inflight[s].k, env)))]
    /\ _last_location' = NextLastLocation(_detect_location(inflight[s].question),
                                          _last_location)
    /\ UNCHANGED <<_query_cache, recency>>
    /\ ConcurrentFrame

\* "if len(self._query_cache) >= self._cache_maxsize"
PutLen(s) ==
    /\ inflight[s].pc = "put_len"
    /\ Goto(s, IF Len(_query_cache) >= cache_maxsize THEN "put_pop" ELSE "put_set")
    /\ UNCHANGED <<_query_cache, _last_location, recency>>
    /\ ConcurrentFrame

\* "self._query_cache.popitem(last=False)"
PutPop(s) ==
    /\ inflight[s].pc = "put_pop"
    /\ Goto(s, IF _query_cache = <<>> THEN "raised" ELSE "put_set")
    /\ _query_cache' = IF _query_cache = <<>> THEN _query_cache ELSE Tail(_query_cache)
    /\ recency' = IF _query_cache = <<>> THEN recency
                  ELSE Forget(recency, {Head(_query_cache).key})
    /\ UNCHANGED _last_location
    /\ ConcurrentFrame

\* "self._query_cache[key] = {"result": result, "timestamp": time.time()}"
PutSet(s) ==
    /\ inflight[s].pc = "put_set"
    /\ Goto(s, "idle")
    /\ _query_cache' =
          IF KeyIndex(_query_cache, inflight[s].key) = 0
          THEN Append(_query_cache, [key |-> inflight[s].key,
                                     result |-> inflight[s].result[1], timestamp |-> now])
          ELSE [_query_cache EXCEPT ![KeyIndex(_query_cache, inflight[s].key)] =
                   [key |-> inflight[s].key, result |-> inflight[s].result[1],
                    timestamp |-> now]]
    /\ recency' = Touch(recency, [key |-> inflight[s].key,
                                  result |-> inflight[s].result[1],
                                  timestamp |-> now, renewed |-> FALSE])
    /\ UNCHANGED _last_location
    /\ ConcurrentFrame

\* the calls: one question under three result counts, hence three keys
ConcurrentCalls == {<<QKusatsu, 1>>, <<QKusatsu, 2>>, <<QKusatsu, 3>>}

Enter == \E s \in Sessions, c \in ConcurrentCalls : CallQuery(s, c[1], c[2])

GetSteps ==
    \E s \in Sessions : GetContains(s) \/ GetRead(s) \/ GetTTL(s) \/ GetDel(s) \/ GetMove(s)

MissStep == \E s \in Sessions : SearchAndAnswer(s, EnvA)

PutSteps == \E s \in Sessions : PutLen(s) \/ PutPop(s) \/ PutSet(s)

NextConcurrent == Load \/ Tick \/ Enter \/ GetSteps \/ MissStep \/ PutSteps

SpecConcurrent == Init /\ [][NextConcurrent]_vars

(***************************************************************************)
(* SpecLoad: loads of two corpora that run to their end or raise, and      *)
(* chunk searches in between.                                              *)
(***************************************************************************)
\* the chunks of a second, smaller set of chunk files
SmallCorpus == <<DocH1, DocO2>>

Corpora == {JsonCorpus, SmallCorpus}

LoadStep == \E corpus \in Corpora : LoadJsonChunks(corpus)

LoadFailsStep ==
    \E corpus \in Corpora, at \in LoadFailPoints : LoadJsonChunksFails(corpus, at)

LoadSearch == \E q \in {QHakone, QPlain} : SearchChunks("s1", q, 2, EnvA)

NextLoad == LoadStep \/ LoadFailsStep \/ LoadSearch

SpecLoad == Init /\ [][NextLoad]_vars

(***************************************************************************)
(* SpecReload: queries, some of them failing in the reranker, between      *)
(* loads of one corpus or another, the clock running.                      *)
(***************************************************************************)
\* the chunks of the text file: no chunk_id and no location in the metadata
TextCorpus ==
    << [chunk_id |-> AbsentId, page_content |-> "t1", location |-> "None"],
       [chunk_id |-> AbsentId, page_content |-> "t2", location |-> "None"] >>

LoadDataStep == LoadData(TextCorpus)

ReloadCalls == {<<QKusatsu, 1>>, <<QPlain, 1>>}

ReloadQuery ==
    \E c \in ReloadCalls, env \in {EnvA, EnvRerankFails} : Query("s1", c[1], c[2], env)

NextReload == LoadStep \/ LoadDataStep \/ Tick \/ ReloadQuery

SpecReload == Init /\ [][NextReload]_vars

(***************************************************************************)
(* SpecStages: the stages of the pipeline applied on their own to inputs   *)
(* drawn at the start, and runs of the whole pipeline by search_chunks.    *)
(***************************************************************************)
\* longest candidate list handed to a stage
MaxCandidates == 3

\* CrossEncoder scores around the confidence threshold
CeScores == {CONFIDENCE_THRESHOLD - 1, CONFIDENCE_THRESHOLD,
             CONFIDENCE_THRESHOLD + 1, CONFIDENCE_THRESHOLD + 4}

\* judgment scores of the candidates
LlmScores == {0, 7}

\* (doc, ce, llm) candidate lists, the i-th candidate holding the i-th chunk
CandidateLists ==
    UNION {{[i \in 1..n |-> [doc |-> JsonCorpus[i], ce |-> f[i].ce, llm |-> f[i].llm]] :
               f \in [1..n -> [ce : CeScores, llm : LlmScores]]} :
           n \in 0..MaxCandidates}

\* the calls of _final_selection
SelectionInputs ==
    {Pending("_final_selection", [candidates |-> c, top_k |-> k]) :
        c \in CandidateLists, k \in Ks}

\* (doc, ce) lists as _rerank returns them: score descending
ScoredLists ==
    UNION {{[i \in 1..n |-> [doc |-> JsonCorpus[i], ce |-> f[i]]] :
               f \in {g \in [1..n -> CeScores] : \A i \in 1..(n-1) : g[i] >= g[i+1]}} :
           n \in 0..MaxCandidates}

\* a second response text: a score below 0, an identifier judged twice
JudgeLines2 ==
    << <<"kusatsu_001", ":", "-1">>, <<"hakone_001", ":", "3">>,
       <<"hakone_001", ":", "10">>, <<":", "8">> >>

\* the judgment call: it raises, or it answers with a response text
LLMBehaviours ==
    {[fail |-> TRUE,  lines |-> <<>>],
     [fail |-> FALSE, lines |-> <<>>],
     [fail |-> FALSE, lines |-> JudgeLines],
     [fail |-> FALSE, lines |-> JudgeLines2]}

\* the calls of _llm_extract_candidates
ExtractionInputs ==
    {Pending("_llm_extract_candidates", [llm |-> b, scored_docs |-> d, top_k |-> k]) :
        b \in LLMBehaviours, d \in ScoredLists, k \in Ks \cup {final_k + 2}}

\* the classes whose instances run _hybrid_search
Classes == {"OnsenRAG", "OnsenGuideRAG"}

\* the calls self._rerank(question, rrf_results): fused lists without
\* repeated content and the scores the CrossEncoder gives their chunks
RerankInputs ==
    {Pending("_rerank", [cls |-> c, docs |-> SubSeq(JsonCorpus, 1, n), ce |-> f]) :
        c \in Classes, n \in 0..MaxCandidates, f \in [Contents -> {0 - 4, 0, 2}]}

StageInputs == SelectionInputs \cup ExtractionInputs \cup RerankInputs

InitStages ==
    /\ vectorstore = None
    /\ documents = <<>>
    /\ bm25_built = FALSE
    /\ _bm25_all = <<>>
    /\ _bm25_by_location = [loc \in Locations \cup {GeneralTag} |-> <<>>]
    /\ _query_cache = <<>>
    /\ _last_location = "None"
    /\ now = 0
    /\ lastQ = NoCall
    /\ recency = <<>>
    /\ sessionTags = [s \in Sessions |-> {}]
    /\ loaded = FALSE
    /\ probe \in StageInputs
    /\ inflight = [s \in Sessions |-> Idle]

\* OnsenRAG._final_selection applied to the drawn candidates
FinalSelection ==
    /\ probe.fn = "_final_selection" /\ ~probe.done
    /\ probe' = Applied(probe.fn, probe.args,
                        _final_selection(probe.args.candidates, probe.args.top_k))
    /\ UNCHANGED <<vectorstore, documents, bm25_built, _bm25_all, _bm25_by_location,
                   _query_cache, _last_location, now, lastQ, recency, sessionTags,
                   loaded, inflight>>

\* OnsenRAG._llm_extract_candidates applied to the drawn scored documents
LLMExtract ==
    /\ probe.fn = "_llm_extract_candidates" /\ ~probe.done
    /\ probe' = Applied(probe.fn, probe.args,
                        _llm_extract_candidates([llm |-> probe.args.llm],
                                                probe.args.scored_docs,
                                                probe.args.top_k))
    /\ UNCHANGED <<vectorstore, documents, bm25_built, _bm25_all, _bm25_by_location,
                   _query_cache, _last_location, now, lastQ, recency, sessionTags,
                   loaded, inflight>>

\* self._rerank applied to the drawn fused list
Rerank ==
    /\ probe.fn = "_rerank" /\ ~probe.done
    /\ probe' = Applied(probe.fn, probe.args,
                        RerankOf(probe.args.cls, [ce |-> probe.args.ce], probe.args.docs))
    /\ UNCHANGED <<vectorstore, documents, bm25_built, _bm25_all, _bm25_by_location,
                   _query_cache, _last_location, now, lastQ, recency, sessionTags,
                   loaded, inflight>>

NextStages == Load \/ SearchStep \/ FinalSelection \/ LLMExtract \/ Rerank

SpecStages == InitStages /\ [][NextStages]_vars

(***************************************************************************)
(* SpecFusion: the RRF step of _hybrid_search applied on its own to pairs  *)
(* of ranked lists, for instances constructed with several weights.        *)
(***************************************************************************)
\* a second chunk with the text of hakone_001: no loader rejects a chunk
\* whose content repeats an earlier one
DocH2 == [chunk_id |-> "hakone_002", page_content |-> "h1", location |-> "hakone"]

\* the chunks the retrievers return
FusionDocs == {DocK1, DocH1, DocO1, DocH2}

\* longest retriever result
MaxListLen == 3

\* semantic_weight of the instance, in tenths (documented range 0.0 to 1.0)
Weights == {0, 3, 5, 10}

\* retriever results: no chunk twice
RankedLists ==
    UNION {{l \in [1..n -> FusionDocs] : \A i, j \in 1..n : i # j => l[i] # l[j]} :
           n \in 0..MaxListLen}

\* the runs of the RRF step
FusionInputs ==
    {Pending("rrf", [semantic_weight |-> w, semantic_docs |-> sem, bm25_docs |-> bm]) :
        w \in Weights, sem \in RankedLists, bm \in RankedLists}

InitFusion ==
    /\ vectorstore = None
    /\ documents = <<>>
    /\ bm25_built = FALSE
    /\ _bm25_all = <<>>
    /\ _bm25_by_location = [loc \in Locations \cup {GeneralTag} |-> <<>>]
    /\ _query_cache = <<>>
    /\ _last_location = "None"
    /\ now = 0
    /\ lastQ = NoCall
    /\ recency = <<>>
    /\ sessionTags = [s \in Sessions |-> {}]
    /\ loaded = FALSE
    /\ probe \in FusionInputs
    /\ inflight = [s \in Sessions |-> Idle]

\* the RRF step: out is doc_scores / doc_map in the order of sorted_contents
Fuse ==
    /\ probe.fn = "rrf" /\ ~probe.done
    /\ probe' = Applied(probe.fn, probe.args,
                        SortDesc(RRFScoresWith(probe.args.semantic_weight,
                                               probe.args.semantic_docs,
                                               probe.args.bm25_docs)))
    /\ UNCHANGED <<vectorstore, documents, bm25_built, _bm25_all, _bm25_by_location,
                   _query_cache, _last_location, now, lastQ, recency, sessionTags,
                   loaded, inflight>>

NextFusion == Fuse

SpecFusion == InitFusion /\ [][NextFusion]_vars

(***************************************************************************)
(* Properties                                                              *)
(***************************************************************************)
IsQuery(q) == q.op = "query"

\* C1: after any sequence of queries (hence of cache gets and puts) the
\* query cache holds at most cache_maxsize entries.
C1_CacheBounded == Len(_query_cache) <= cache_maxsize

\* a put was made at capacity and the cache is full afterwards
C1_Witness ==
    /\ IsQuery(lastQ) /\ lastQ.outcome = "ok" /\ lastQ.full
    /\ Len(_query_cache) = cache_maxsize

\* C2 (as claimed): a get for a stored key misses whenever the time since
\* the insertion is greater than or equal to the TTL, and hits only while it
\* is strictly less.
C2_ExpiresAtTTL ==
    (IsQuery(lastQ) /\ lastQ.age # None) =>
        /\ (lastQ.age[1] >= cache_ttl => lastQ.outcome # "hit")
        /\ (lastQ.outcome = "hit" => lastQ.age[1] < cache_ttl)

\* C3: a put at capacity evicts exactly one entry, the least recently used
\* one, a use being the insertion or a hit.
C3_EvictsLRU ==
    (IsQuery(lastQ) /\ lastQ.full) =>
        /\ Cardinality(lastQ.evicted) = 1
        /\ lastQ.lru # None
        /\ lastQ.evicted = {lastQ.lru[1]}

\* an eviction that spared a key inserted before the evicted one: the
\* survivor had been hit since
C3_Witness ==
    /\ IsQuery(lastQ) /\ lastQ.full
    /\ \E i \in 1..Len(_query_cache) :
          /\ _query_cache[i].key # _cache_key(lastQ.question, lastQ.k)
          /\ \E t \in lastQ.evictedAt : _query_cache[i].timestamp < t

\* C4: a get before the TTL has elapsed since the latest put of its key
\* returns the result that put stored, unchanged; a get after the TTL has
\* elapsed misses; the put that follows stores the new result, which is
\* what the next get within the new TTL returns.
C4_PutGet ==
    (IsQuery(lastQ) /\ lastQ.stored # None) =>
        /\ (lastQ.age[1] < cache_ttl =>
                lastQ.outcome = "hit" /\ lastQ.ret = lastQ.stored)
        /\ (lastQ.age[1] > cache_ttl => lastQ.outcome # "hit")
        /\ (lastQ.outcome = "hit" => lastQ.ret = lastQ.stored)

\* a hit on an entry that was put again after its predecessor had expired
C4_Witness ==
    /\ IsQuery(lastQ) /\ lastQ.outcome = "hit" /\ lastQ.renewed
    /\ lastQ.age[1] < cache_ttl

\* C5: a query that hits the cache returns the stored result, runs no
\* pipeline stage and leaves the context tag and the set of cached entries
\* as they were.
C5_HitFrame ==
    [][(IsQuery(lastQ') /\ lastQ'.outcome = "hit") =>
          /\ _last_location' = _last_location
          /\ Range(_query_cache') = Range(_query_cache)
          /\ lastQ'.stages = {}
          /\ lastQ'.ret = lastQ'.stored]_vars

\* a hit of a question that names another location than the stored one
C5_Witness ==
    /\ IsQuery(lastQ) /\ lastQ.outcome = "hit"
    /\ _detect_location(lastQ.question) # "None"
    /\ _detect_location(lastQ.question) # _last_location

\* C6 (as claimed): after every completed query whose text has keywords of
\* exactly one location, the stored context tag is that location.
C6_ContextFollowsQuery ==
    (IsQuery(lastQ) /\ Completed(lastQ) /\ MatchCount(lastQ.question) = 1) =>
        _last_location = _detect_location(lastQ.question)

\* C7 (as claimed): a completed query without location keyword that comes
\* right after a completed query naming exactly one location A returns
\* only chunks of A or general-knowledge chunks.
C7_FollowUpScoped ==
    (IsQuery(lastQ) /\ Completed(lastQ) /\ MatchCount(lastQ.question) = 0
        /\ lastQ.prevTag # "None") =>
        \A i \in 1..Len(lastQ.docs) :
            lastQ.docs[i].location \in {lastQ.prevTag, GeneralTag}

\* C8 (as claimed): a query without location keyword is never scoped to a
\* location that only the other session's questions named.
C8_SessionIsolation ==
    (IsQuery(lastQ) /\ MatchCount(lastQ.question) = 0 /\ lastQ.location # "None") =>
        lastQ.location \in sessionTags[lastQ.session]

\* the locations whose keywords the question contains
Named(question) ==
    {LOCATION_KEYWORDS[i].location : i \in
        {n \in 1..Len(LOCATION_KEYWORDS) :
            \E j \in 1..Len(LOCATION_KEYWORDS[n].keywords) :
                Contains(question, LOCATION_KEYWORDS[n].keywords[j])}}

\* C9: detection returns location E exactly when the question has a keyword
\* of E and of no other location, None for zero or several locations, and a
\* detection call changes no state.
C9_Detect ==
    [][(lastQ'.op \in {"detect", "search"} /\ lastQ'.outcome = "ok") =>
          /\ \A e \in Locations :
                lastQ'.detected = e <=> Named(lastQ'.question) = {e}
          /\ lastQ'.detected = "None" <=> Cardinality(Named(lastQ'.question)) # 1
          /\ (lastQ'.op = "detect" /\ lastQ' # lastQ) =>
                UNCHANGED <<vectorstore, documents, bm25_built, _bm25_all,
                            _bm25_by_location, _query_cache, _last_location, now>>]_vars

\* a detection on a question naming two locations, with a context stored
C9_Witness ==
    /\ lastQ.op = "detect" /\ Cardinality(Named(lastQ.question)) = 2
    /\ lastQ.detected = "None" /\ _last_location # "None"

\* C10: every chunk returned by a run of the pipeline with a location in
\* effect has that location or the general-knowledge tag.
C10_Filtered ==
    (lastQ.op \in {"query", "search"} /\ lastQ.outcome = "ok"
        /\ lastQ.location # "None") =>
        \A i \in 1..Len(lastQ.docs) :
            lastQ.docs[i].location \in {lastQ.location, GeneralTag}

\* a run under a carried-over location that returned a chunk of that
\* location while chunks of another location are stored
C10_Witness ==
    /\ lastQ.op = "search" /\ lastQ.outcome = "ok"
    /\ lastQ.detected = "None" /\ lastQ.location # "None"
    /\ \E i \in 1..Len(lastQ.docs) : lastQ.docs[i].location = lastQ.location
    /\ \E d \in Range(vectorstore[1]) : d.location \notin {lastQ.location, GeneralTag}

\* the selector was applied to drawn candidates
SelectorApplied == probe.fn = "_final_selection" /\ probe.done

\* the pipeline ran to its end
PipelineRan ==
    probe.fn = "_hybrid_search" /\ probe.done /\ ~probe.out.rerank_raises

\* positions of the candidates whose rerank score reaches the threshold
Passing(candidates) ==
    {i \in 1..Len(candidates) : candidates[i].ce >= CONFIDENCE_THRESHOLD}

C12_EmptyGate ==
    /\ (SelectorApplied /\ Passing(probe.args.candidates) = {}) => probe.out = <<>>
    /\ (PipelineRan /\ Passing(probe.out.llm_candidates) = {}) =>
          probe.out.final_results = <<>>

\* a pipeline run whose candidates were all scored below the threshold
C12_Witness ==
    /\ PipelineRan
    /\ probe.out.llm_candidates # <<>>
    /\ \A i \in 1..Len(probe.out.llm_candidates) :
          probe.out.llm_candidates[i].ce < CONFIDENCE_THRESHOLD
    /\ probe.out.final_results = <<>>

\* the query-time operations
QueryTimeOps == {"query", "search", "evaluate"}

\* C13 (as claimed): a query, search_chunks or evaluate call made before
\* any load has run to its end ends with the not-ready error and leaves the
\* query cache and the context tag as they were.
C13_NotReady ==
    [][(~loaded /\ lastQ' # lastQ /\ lastQ'.op \in QueryTimeOps) =>
          /\ lastQ'.outcome = "not_ready"
          /\ UNCHANGED <<_query_cache, _last_location>>]_vars

\* the installed index: documents, vector store and keyword indexes
index == <<documents, vectorstore, bm25_built, _bm25_all, _bm25_by_location>>

\* C14 (as claimed): a load that raises leaves the document list, the vector
\* store and the keyword indexes as they were before it.
C14_AllOrNothing ==
    [][(lastQ' # lastQ /\ lastQ'.op = "load" /\ lastQ'.outcome = "error") =>
          UNCHANGED index]_vars

\* the keys of a sequence of entries, in order
KeyOrder(entries) == [i \in 1..Len(entries) |-> entries[i].key]

\* C15 (as claimed): with the statements of concurrent queries interleaved
\* in any order the cache holds at most cache_maxsize entries, its order is
\* that of the completed hits and insertions, and no cache operation of a
\* query raises.
C15_ConcurrentCache ==
    /\ Len(_query_cache) <= cache_maxsize
    /\ KeyOrder(_query_cache) = KeyOrder(recency)
    /\ \A s \in Sessions : inflight[s].pc # "raised"

\* the extractor was applied to drawn scored documents
ExtractorApplied == probe.fn = "_llm_extract_candidates" /\ probe.done

\* what the failure of the judgment call must give for the scored
\* documents scored and the requested count top_n
IsRerankFallback(out, scored, top_n) ==
    /\ Len(out) = Min2(top_n, Len(scored))
    /\ \A j \in 1..Len(out) :
          /\ out[j].llm = 0
          /\ \E i \in 1..Len(scored) :
                out[j].doc = scored[i].doc /\ out[j].ce = scored[i].ce
          /\ \A n \in 1..Len(out) : (out[j].doc = out[n].doc) => j = n
          /\ \A n \in (j+1)..Len(out) : out[j].ce >= out[n].ce
          /\ \A i \in 1..Len(scored) :
                (\A n \in 1..Len(out) : out[n].doc # scored[i].doc) =>
                    scored[i].ce <= out[j].ce

\* C16: when the judgment call raises, the extractor returns the top_n
\* scored documents with the highest rerank scores, in descending rerank
\* order, each with judgment score 0, and the pipeline run goes on.
C16_JudgeFailureFallback ==
    /\ (ExtractorApplied /\ probe.args.llm.fail) =>
          IsRerankFallback(probe.out, probe.args.scored_docs, probe.args.top_k)
    /\ (PipelineRan /\ probe.out.llm_called /\ probe.args.env.llm.fail) =>
          IsRerankFallback(probe.out.llm_candidates, probe.out.scored_docs, final_k + 2)

\* a pipeline run whose judgment call raised and which left a scored
\* document out and still returned chunks
C16_Witness ==
    /\ PipelineRan /\ probe.out.llm_called /\ probe.args.env.llm.fail
    /\ Len(probe.out.llm_candidates) < Len(probe.out.scored_docs)
    /\ probe.out.final_results # <<>>

\* the lines of a response that judge the identifier cid: a last ":" with
\* cid before it and a number after it
JudgingLines(lines, cid) ==
    {i \in 1..Len(lines) :
        /\ \E c \in 1..Len(lines[i]) : lines[i][c] = ":"
        /\ SubSeq(lines[i], 1, LastColon(lines[i]) - 1) = <<cid>>
        /\ ParseFloat(SubSeq(lines[i], LastColon(lines[i]) + 1, Len(lines[i]))) # None}

\* the number of the last line that judges cid
JudgedValue(lines, cid) ==
    LET last == CHOOSE i \in JudgingLines(lines, cid) :
                    \A n \in JudgingLines(lines, cid) : n <= i
    IN  ParseFloat(SubSeq(lines[last], LastColon(lines[last]) + 1, Len(lines[last])))[1]

\* the judgment score the response gives to cid
ExpectedJudgment(lines, cid) ==
    IF JudgingLines(lines, cid) = {} THEN 0
    ELSE IF JudgedValue(lines, cid) > 10 THEN 10
    ELSE IF JudgedValue(lines, cid) < 0 THEN 0
    ELSE JudgedValue(lines, cid)

\* every candidate of out has the judgment score the response gives it
IsJudged(out, lines) ==
    \A j \in 1..Len(out) :
        /\ out[j].llm \in 0..10
        /\ out[j].llm = ExpectedJudgment(lines, out[j].doc.chunk_id)

\* C17: for any response text the extractor returns candidates whose
\* judgment scores lie in [0, 10]: a parsed score above 10 gives 10, one
\* below 0 gives 0, a missing identifier or an unparseable line gives 0.
C17_JudgmentClamped ==
    /\ (ExtractorApplied /\ ~probe.args.llm.fail) =>
          /\ IsJudged(probe.out, probe.args.llm.lines)
          /\ Len(probe.out) = Min2(probe.args.top_k, Len(probe.args.scored_docs))
    /\ (PipelineRan /\ probe.out.llm_called /\ ~probe.args.env.llm.fail) =>
          IsJudged(probe.out.llm_candidates, probe.args.env.llm.lines)

\* the extractor returned a candidate judged 12 with score 10 and one whose
\* line does not parse with score 0
C17_Witness ==
    /\ ExtractorApplied /\ probe.args.llm.lines = JudgeLines
    /\ \E j \in 1..Len(probe.out) :
          probe.out[j].doc.chunk_id = "hakone_001" /\ probe.out[j].llm = 10
    /\ \E j \in 1..Len(probe.out) :
          probe.out[j].doc.chunk_id = "onsen_001" /\ probe.out[j].llm = 0

(***************************************************************************)
(* Candidate fusion                                                        *)
(***************************************************************************)
\* the RRF step has been applied to the drawn lists
FusionApplied == probe.fn = "rrf" /\ probe.done

\* the page_content values of a list of chunks
ContentsOf(docs) == {docs[i].page_content : i \in 1..Len(docs)}

\* rrf_results of the applied step
FusedDocs == [i \in 1..Len(probe.out) |-> probe.out[i].doc]

\* C18: the fused list holds the content of every chunk of the semantic list
\* and of every chunk of the keyword list, and holds no content twice.
C18_FusionComplete ==
    FusionApplied =>
        /\ ContentsOf(probe.args.semantic_docs) \cup ContentsOf(probe.args.bm25_docs)
               \subseteq ContentsOf(FusedDocs)
        /\ \A i, j \in 1..Len(FusedDocs) :
               i # j => FusedDocs[i].page_content # FusedDocs[j].page_content

\* a fusion of lists that share a content, one of them holding two chunks
\* with the same text
C18_Witness ==
    /\ FusionApplied
    /\ ContentsOf(probe.args.semantic_docs) \cap ContentsOf(probe.args.bm25_docs) # {}
    /\ {DocH1, DocH2} \subseteq Range(probe.args.bm25_docs)
    /\ ContentsOf(probe.args.semantic_docs) \ ContentsOf(probe.args.bm25_docs) # {}
    /\ Len(FusedDocs) < Len(probe.args.semantic_docs) + Len(probe.args.bm25_docs)

\* doc_scores[content] of the applied step
FusedScore(content) ==
    LET i == CHOOSE j \in 1..Len(probe.out) : probe.out[j].content = content
    IN  probe.out[i].key

\* the contents present in exactly one of the two lists
InOneListOnly ==
    (ContentsOf(probe.args.semantic_docs) \ ContentsOf(probe.args.bm25_docs))
    \cup (ContentsOf(probe.args.bm25_docs) \ ContentsOf(probe.args.semantic_docs))

\* one chunk is at rank 0 of the semantic list and of the keyword list
SameTopOfBoth ==
    /\ probe.args.semantic_docs # <<>>
    /\ probe.args.bm25_docs # <<>>
    /\ probe.args.semantic_docs[1].page_content = probe.args.bm25_docs[1].page_content

\* C19: when one chunk is at rank 0 of both lists, its fused score is
\* strictly greater than the fused score of every chunk present in only one
\* of the lists, whatever the weight of the semantic list between 0 and 1.
C19_TopOfBothFirst ==
    (FusionApplied /\ SameTopOfBoth) =>
        \A c \in InOneListOnly :
            FusedScore(probe.args.semantic_docs[1].page_content) > FusedScore(c)

\* the 0-based position of a content in a list that holds it
RankIn(docs, content) ==
    (CHOOSE i \in 1..Len(docs) :
        /\ docs[i].page_content = content
        /\ \A j \in 1..(i - 1) : docs[j].page_content # content) - 1

\* list_weight / (rank + RRF_K) for a list that holds the content, else 0
ListTerm(weight, docs, content) ==
    IF content \in ContentsOf(docs) THEN RRFScore(weight, RankIn(docs, content)) ELSE 0

\* C20: the fused score of a chunk is the sum, over the lists that hold it,
\* of list_weight / (rank + 60) with rank its 0-based position in the list;
\* the fused list is in descending order of fused score; a chunk of only one
\* list has a nonzero score and is in the fused list.
C20_FusedScores ==
    FusionApplied =>
        /\ \A i \in 1..Len(probe.out) :
               probe.out[i].key =
                   ListTerm(probe.args.semantic_weight, probe.args.semantic_docs,
                            probe.out[i].content)
                   + ListTerm(10 - probe.args.semantic_weight, probe.args.bm25_docs,
                              probe.out[i].content)
        /\ \A i \in 1..(Len(probe.out) - 1) : probe.out[i].key >= probe.out[i + 1].key
        /\ \A c \in InOneListOnly :
               c \in ContentsOf(FusedDocs) /\ FusedScore(c) # 0

\* the RRF step of the applied run with the keyword list folded in first
KeywordFirst ==
    SortDesc(RRFScoresKeywordFirst(probe.args.semantic_weight,
                                   probe.args.semantic_docs, probe.args.bm25_docs))

\* the contents of a sorted doc_scores, in order
ContentOrder(entries) == [i \in 1..Len(entries) |-> entries[i].content]

\* the (content, score) pairs of a doc_scores
ScoreOf(entries) == {<<entries[i].content, entries[i].key>> : i \in 1..Len(entries)}

\* no two contents have the same fused score
NoTies(entries) ==
    \A i, j \in 1..Len(entries) : i # j => entries[i].key # entries[j].key

C22_LookupsBounded ==
    PipelineRan =>
        /\ Len(probe.out.semantic_docs) <= initial_k
        /\ Len(probe.out.bm25_docs) <= initial_k

\* self._rerank has been applied to the drawn fused list
RerankApplied == probe.fn = "_rerank" /\ probe.done

\* C23: the reranking stage the pipeline calls returns one (chunk, score)
\* pair for every fused candidate, none dropped and none added, in
\* descending order of score, in OnsenRAG and in OnsenGuideRAG.
C23_RerankKeepsAll ==
    RerankApplied =>
        /\ Len(probe.out) = Len(probe.args.docs)
        /\ {probe.out[i].doc : i \in 1..Len(probe.out)} = Range(probe.args.docs)
        /\ \A i \in 1..Len(probe.out) :
               probe.out[i].ce = probe.args.ce[probe.out[i].doc.page_content]
        /\ \A i \in 1..(Len(probe.out) - 1) : probe.out[i].ce >= probe.out[i + 1].ce

\* C24: with at most final_k + 2 reranked candidates the judgment capability
\* is not called and every candidate reaches the final selection with
\* judgment score 0 and its rerank score; with more than final_k + 2 it is
\* called exactly once.
C24_JudgmentSkip ==
    PipelineRan =>
        IF Len(probe.out.scored_docs) <= final_k + 2
        THEN /\ probe.out.llm_calls = 0
             /\ Len(probe.out.llm_candidates) = Len(probe.out.scored_docs)
             /\ \A i \in 1..Len(probe.out.scored_docs) :
                    /\ probe.out.llm_candidates[i].doc = probe.out.scored_docs[i].doc
                    /\ probe.out.llm_candidates[i].ce = probe.out.scored_docs[i].ce
                    /\ probe.out.llm_candidates[i].llm = 0
        ELSE probe.out.llm_calls = 1

\* a run with exactly final_k + 2 reranked candidates
C24_Witness ==
    /\ PipelineRan
    /\ Len(probe.out.scored_docs) = final_k + 2
    /\ probe.out.llm_calls = 0
    /\ probe.args.env.llm.lines # <<>>

(***************************************************************************)
(* Final selection                                                         *)
(***************************************************************************)
\* the candidates of the applied selection that pass the confidence gate
Survivors ==
    {c \in Range(probe.args.candidates) : c.ce >= CONFIDENCE_THRESHOLD}

\* max - min of the survivors' rerank scores, 1 when they are all equal
SurvivorRange ==
    LET lo == CHOOSE x \in {c.ce : c \in Survivors} : \A c \in Survivors : x <= c.ce
        hi == CHOOSE x \in {c.ce : c \in Survivors} : \A c \in Survivors : x >= c.ce
    IN  IF hi = lo THEN 1 ELSE hi - lo

\* 0.4 * (rerank - min) / range + 0.6 * judgment / 10 of a survivor,
\* multiplied by 100 * range
ExpectedFinal(c) ==
    LET lo == CHOOSE x \in {d.ce : d \in Survivors} : \A d \in Survivors : x <= d.ce
    IN  40 * (c.ce - lo) + 6 * c.llm * SurvivorRange

\* the candidate a returned chunk came from
CandidateOf(doc) == CHOOSE c \in Range(probe.args.candidates) : c.doc = doc

\* C25: the selector returns min(top_k, number of survivors) chunks, all of
\* them survivors of the confidence gate, in descending order of the final
\* score 0.4 * (rerank - min) / range + 0.6 * judgment / 10, and no survivor
\* left out has a higher final score than a returned one.
C25_FinalScore ==
    SelectorApplied =>
        /\ Len(probe.out) = Min2(probe.args.top_k, Cardinality(Survivors))
        /\ \A i \in 1..Len(probe.out) : CandidateOf(probe.out[i]) \in Survivors
        /\ \A i \in 1..(Len(probe.out) - 1) :
               ExpectedFinal(CandidateOf(probe.out[i]))
                   >= ExpectedFinal(CandidateOf(probe.out[i + 1]))
        /\ \A c \in Survivors :
               c.doc \notin Range(probe.out) =>
                   \A i \in 1..Len(probe.out) :
                       ExpectedFinal(CandidateOf(probe.out[i])) >= ExpectedFinal(c)

\* a selection in which a survivor with the lower rerank score wins by its
\* judgment score, and a survivor is left out
C25_Witness ==
    /\ SelectorApplied
    /\ Cardinality(Survivors) > probe.args.top_k
    /\ probe.out # <<>>
    /\ SurvivorRange > 1
    /\ \E c \in Survivors :
           /\ c.doc \notin Range(probe.out)
           /\ c.ce > CandidateOf(probe.out[1]).ce

(***************************************************************************)
(* Loads                                                                   *)
(***************************************************************************)
\* C26: once a load has completed, no query returns a result computed from
\* the corpus loaded before it; in particular a result served from the
\* cache holds only chunks of the corpus now loaded.
C26_NoStaleHit ==
    [][(lastQ' # lastQ /\ lastQ'.op = "query" /\ lastQ'.outcome = "hit")
          => Range(lastQ'.docs) \subseteq Range(documents)]_vars

\* C27: after any load has completed, the all-documents keyword index and
\* the per-location keyword indexes are built from the documents of the
\* most recent load, the documents the vector store holds.
C27_KeywordIndexesFollowLoad ==
    loaded =>
        /\ vectorstore = Some(documents)
        /\ bm25_built
        /\ _bm25_all = documents
        /\ _bm25_by_location = BM25ByLocation(documents)

(***************************************************************************)
(* The result of the pipeline                                              *)
(***************************************************************************)
\* C28: when the pipeline returns fewer than k chunks, every fused candidate
\* whose rerank score reaches the confidence threshold is among them.
C28_NoConfidentLeftOut ==
    (PipelineRan /\ Len(probe.out.final_results) < probe.args.k) =>
        \A i \in 1..Len(probe.out.scored_docs) :
            probe.out.scored_docs[i].ce >= CONFIDENCE_THRESHOLD
                => probe.out.scored_docs[i].doc \in Range(probe.out.final_results)

(***************************************************************************)
(* Failing calls                                                           *)
(***************************************************************************)
\* C29: a call of query that ends in an error leaves the query cache and
\* the stored location context as they were before the call.
C29_ErrorLeavesState ==
    [][(lastQ' # lastQ /\ lastQ'.op = "query"
          /\ lastQ'.outcome \in {"error", "not_ready"})
          => UNCHANGED <<_query_cache, _last_location>>]_vars

(***************************************************************************)
(* Eviction and expiry                                                     *)
(***************************************************************************)
\* C30: a put never evicts an entry younger than the TTL while an entry
\* older than the TTL stays stored in the cache.
C30_ExpiredEvictedFirst ==
    [][(lastQ' # lastQ /\ lastQ'.op = "query" /\ lastQ'.outcome = "ok") =>
          \A i \in 1..Len(_query_cache) :
              (/\ _query_cache[i].key \in lastQ'.evicted
               /\ now - _query_cache[i].timestamp < cache_ttl)
              => ~\E j \in 1..Len(_query_cache) :
                     /\ now - _query_cache[j].timestamp > cache_ttl
                     /\ \E m \in 1..Len(_query_cache') :
                            _query_cache'[m] = _query_cache[j]]_vars
====
